---- MODULE Spec2Model ----
(***************************************************************************)
(* State-machine model of the two speech components of the voice catalog:  *)
(* TtsTool (the TTS studio modal, cloud engine 'gemini' and local engine   *)
(* 'system') and AiTtsPreview (cloud-only preview).  One behaviour follows *)
(* one component instance, chosen in Init, together with the platform      *)
(* objects it creates: audio contexts, buffer sources, speech utterances,  *)
(* backend requests in flight.                                             *)
(*                                                                         *)
(* React state is the value last passed to the state setter.  A handler    *)
(* reads the values of the render it was created in, so an asynchronous    *)
(* continuation keeps the engine, voice and helper closures of the render  *)
(* in which the request was issued.  The event loop runs one handler or    *)
(* callback at a time: every action is one such run, from its start to its *)
(* next await.                                                             *)
(*                                                                         *)
(* Platform objects nothing can reach any more are forgotten: a settled    *)
(* request, a finished utterance, an ended source or a closed context that *)
(* no reference points to.                                                 *)
(***************************************************************************)
EXTENDS Naturals, Integers, Sequences, FiniteSets

VARIABLES
    component,          \* which component this instance is
    envApiKey,          \* process.env.API_KEY is set
    aistudio,           \* window.aistudio (hasSelectedApiKey / openSelectKey) exists
    mounted,            \* the component instance is mounted
    isMountedRef,       \* AiTtsPreview: isMountedRef.current
    text,               \* the script (TtsTool state, AiTtsPreview prop)
    engine,             \* TtsTool: 'gemini' | 'system'
    selectedVoiceName,
    isPlaying,
    isLoading,
    error,
    generatedAudio,     \* TtsTool: the retained buffer, NoAudio when null
    hasApiKey,
    audioContextRef,    \* 0 = null, else a slot of contexts
    contexts,           \* slot -> state of the AudioContext in it
    sourceNodeRef,      \* 0 = null, else a slot of sources
    sources,            \* slot -> the AudioBufferSourceNode in it
    staleEnded,         \* ended events queued for sources that stop() halted
    utterances,         \* the platform speech queue, head first
    staleUtterances,    \* notifications queued for utterances that cancel() removed
    requests,           \* generateContent calls in flight, oldest first
    keyChecks,          \* pending hasSelectedApiKey() promises
    keyPickers,         \* pending openSelectKey() promises
    effectEngine,       \* TtsTool: engine seen by the stopAudio the effect cleanup closed over
    last,               \* the last user-interface handler that ran, with the flags it saw
    codec               \* the PCM codec's workspace, idle while a component runs

vars == <<component, envApiKey, aistudio, mounted, isMountedRef, text, engine,
          selectedVoiceName, isPlaying, isLoading, error, generatedAudio, hasApiKey,
          audioContextRef, contexts, sourceNodeRef, sources, staleEnded, utterances,
          staleUtterances, requests, keyChecks, keyPickers, effectEngine, last, codec>>

\* what no handler of a component changes: its environment, and the codec's
\* workspace, which only the codec's own specification uses
env == <<component, envApiKey, aistudio, codec>>
life == <<mounted, isMountedRef>>
inputs == <<text, engine, selectedVoiceName>>
flags == <<isPlaying, isLoading, error, generatedAudio>>
audio == <<audioContextRef, contexts, sourceNodeRef, sources, staleEnded>>
speech == <<utterances, staleUtterances>>
keys == <<hasApiKey, keyChecks, keyPickers>>

\* the component's React state and refs, and the platform objects it drives
session == <<life, inputs, flags, audio, speech, keys, requests, effectEngine>>

----------------------------------------------------------------------------
\* Bounds of the model: objects alive at the same time
MaxRequests == 2
MaxSources == 2
MaxContexts == 2
MaxStale == 1
MaxPromises == 1

\* Program constants
MAX_WORDS == 20000
DefaultWords == 17

NULL == "null"
Voices == {"Zephyr", "Puck"}
FirstVoice == "Zephyr"
Engines == {"gemini", "system"}

ErrLimit == "max limit is 20k words"
ErrAuthPreview == "Authentication required for AI Preview."
ErrAuthTool == "API Key is missing. Please select one or use System Voice."
ErrSystemFailed == "System Speech Synthesis failed."
ErrTextResponse == "API error: The prompt is too long or triggers a filter for audio output."
ErrNoAudio == "No audio data received. Try splitting your text into smaller parts."
ErrPreviewNoAudio == "The script is too long or triggers a safety filter for audio output."
ErrThrown == "err.message"

\* What the backend call can come back with: an inline audio payload, a payload
\* that atob / Int16Array cannot decode, a text part, nothing, or a rejection.
Outcomes == {"audio", "malformed", "text", "empty", "reject"}
\* The state a new AudioContext starts in (autoplay policy)
FreshStates == {"running", "suspended"}

----------------------------------------------------------------------------
\* Scripts.  A script is a run of `words` single-space separated words with
\* optional surrounding whitespace (pad).
Script(pad, words) == [pad |-> pad, words |-> words]
DefaultText == Script(FALSE, DefaultWords)
\* what the user may replace the default script with: blank, exactly at the
\* limit (with surrounding whitespace), one word over the limit
Scripts == { Script(TRUE, 0), Script(TRUE, MAX_WORDS), Script(FALSE, MAX_WORDS + 1) }

\* text.trim()
Trim(t) == Script(FALSE, t.words)
\* a string is truthy iff it has at least one character
Truthy(t) == t.pad \/ t.words > 0
\* s.split(/\s+/): surrounding whitespace yields an empty token on each side,
\* and the empty string splits into one empty token
SplitTokens(t) == IF t.words = 0
                  THEN [tokens |-> (IF t.pad THEN 2 ELSE 1), empty |-> (IF t.pad THEN 2 ELSE 1)]
                  ELSE [tokens |-> t.words + (IF t.pad THEN 2 ELSE 0),
                        empty |-> (IF t.pad THEN 2 ELSE 0)]
\* text.trim().split(/\s+/).filter(Boolean).length
wordCount(t) == LET s == SplitTokens(Trim(t)) IN s.tokens - s.empty

OverLimitGe(t) == wordCount(t) >= MAX_WORDS
\* wordCount > MAX_WORDS
OverLimit(t) == wordCount(t) > MAX_WORDS

\* !text.trim()
BlankScript(t) == ~Truthy(Trim(t))

CredentialNeverMissing == FALSE
\* !process.env.API_KEY && !hasApiKey
NoCredential == ~envApiKey /\ ~hasApiKey

----------------------------------------------------------------------------
\* Platform objects

\* an AudioBuffer is known by what it was synthesized from
NoAudio == [voice |-> NULL]
Buffer(req) == [voice |-> req.voice]

FreeSource == [status |-> "free", ctx |-> 0, buffer |-> NoAudio]
EndedSource == [status |-> "ended", ctx |-> 0, buffer |-> NoAudio]
SourceSlots == 1..MaxSources
ContextSlots == 1..MaxContexts

\* a reference that always looks empty
CtxStateNone(c) == "none"
CtxState(c) == IF c = 0 THEN "none" ELSE contexts[c]
\* a started source produces sound while it has not ended and its context renders
Sounding(s) == sources[s].status = "playing" /\ contexts[sources[s].ctx] = "running"
SoundingSources == { s \in SourceSlots : Sounding(s) }
Speaking == { u \in 1..Len(utterances) : utterances[u] = "speaking" }

FreeSourceSlots(srcs) == { s \in SourceSlots : srcs[s].status = "free" }
FreeContextSlots(ctxs) == { c \in ContextSlots : ctxs[c] = "free" }
Lowest(S) == CHOOSE x \in S : \A y \in S : x <= y

\* the audio state a handler leaves behind
Audio(cref, ctxs, sref, srcs, ended) ==
    [cref |-> cref, ctxs |-> ctxs, sref |-> sref, srcs |-> srcs, ended |-> ended]
Now == Audio(audioContextRef, contexts, sourceNodeRef, sources, staleEnded)

\* forget the sources nothing refers to that have ended or sit in a closed
\* context, then the closed contexts nothing refers to
Forget(a) ==
    LET srcs == [s \in SourceSlots |->
                   IF s # a.sref
                      /\ (a.srcs[s].status = "ended"
                          \/ (a.srcs[s].status = "playing"
                              /\ a.ctxs[a.srcs[s].ctx] = "closed"))
                   THEN FreeSource ELSE a.srcs[s]]
        ctxs == [c \in ContextSlots |->
                   IF c # a.cref /\ a.ctxs[c] = "closed"
                      /\ \A s \in SourceSlots : srcs[s].ctx # c
                   THEN "free" ELSE a.ctxs[c]]
    IN [a EXCEPT !.srcs = srcs, !.ctxs = ctxs]

\* assign the audio state
SetAudio(a) ==
    \* b and f are bound to values, so that each is computed once
    \E b \in {a} : \E f \in {Forget(b)} :
    /\ b.ended <= MaxStale
    /\ audioContextRef' = f.cref
    /\ contexts' = f.ctxs
    /\ sourceNodeRef' = f.sref
    /\ sources' = f.srcs
    /\ staleEnded' = f.ended

\* if (sourceNodeRef.current) { try { sourceNodeRef.current.stop() } catch {};
\* sourceNodeRef.current = null }: a playing source stops and its ended event is
\* queued; stopping an ended source does nothing
StopSourceKeepsPlaying(a) == [a EXCEPT !.sref = 0]
StopSource(a) ==
    IF a.sref = 0 THEN a
    ELSE [a EXCEPT !.sref = 0,
                   !.srcs = [a.srcs EXCEPT ![a.sref] = FreeSource],
                   !.ended = IF a.srcs[a.sref].status = "playing" THEN @ + 1 ELSE @]

\* source = ctx.createBufferSource(); source.buffer = buf; ...;
\* sourceNodeRef.current = source; source.start()
Unreferenced(a) == Forget([a EXCEPT !.sref = 0])
CanStartSource(a) == FreeSourceSlots(Unreferenced(a).srcs) # {}
StartSource(a, buf) ==
    LET s == Lowest(FreeSourceSlots(Unreferenced(a).srcs)) IN
    [a EXCEPT !.sref = s,
              !.srcs = [Unreferenced(a).srcs EXCEPT
                           ![s] = [status |-> "playing", ctx |-> a.cref, buffer |-> buf]]]

\* audioContextRef.current = new AudioContext({ sampleRate: 24000 })
Replaced(a) == Forget([a EXCEPT !.cref = 0])
CanCreateContext(a) == FreeContextSlots(Replaced(a).ctxs) # {}
NewContext(a, fresh) ==
    LET c == Lowest(FreeContextSlots(Replaced(a).ctxs)) IN
    [a EXCEPT !.cref = c, !.ctxs = [Replaced(a).ctxs EXCEPT ![c] = fresh]]

\* audioContextRef.current.close()
CloseContext(a) == IF a.cref = 0 THEN a ELSE [a EXCEPT !.ctxs[a.cref] = "closed"]

\* speechSynthesis.cancel(): every queued or speaking utterance is removed; its
\* end/error notification is delivered later
CancelSpeech ==
    /\ staleUtterances + Len(utterances) <= MaxStale
    /\ utterances' = <<>>
    /\ staleUtterances' = staleUtterances + Len(utterances)

\* what `last` becomes when a user-interface handler runs, and when an
\* asynchronous continuation or a platform callback runs
Did(name) == [op |-> name, loading |-> isLoading, playing |-> isPlaying]
Async == [op |-> "async", loading |-> FALSE, playing |-> FALSE]

-----------------------------------------------------------------------------
\* The PCM codec: decodeAudioData (response bytes -> AudioBuffer) and
\* createWavFile (AudioBuffer -> WAV file).  A JavaScript number is modelled as
\* an exact fraction num/den, den = 0 standing for NaN; every value the codec
\* computes here is a multiple of a power of two that a Float32Array and a
\* double hold exactly.

MaxInts == 4          \* int16 values in a response
MaxChannels == 2      \* channels of a buffer

PcmScale == 32768     \* dataInt16[...] / 32768.0
NegScale == 32768     \* sample * 0x8000
PosScale == 32767     \* sample * 0x7FFF
HeaderBytes == 44     \* audioBuffer.length * numberOfChannels * 2 + 44
FmtChunkSize == 16    \* view.setUint32(pos, 16, true)
PcmFormat == 1        \* view.setUint16(pos, 1, true)
BitsPerSample == 16   \* view.setUint16(pos, 16, true)
SampleRate == 24000   \* decodeAudioData(rawBytes, ctx, 24000)

Int16 == -32768..32767

Float(n, d) == [num |-> n, den |-> d]
NaN == Float(0, 0)
IsNaN(x) == x.den = 0
\* x < y, false when either is NaN
Less(x, y) == ~IsNaN(x) /\ ~IsNaN(y) /\ x.num * y.den < y.num * x.den
\* Math.min / Math.max: NaN when either argument is NaN
MathMin(x, y) == IF IsNaN(x) \/ IsNaN(y) THEN NaN ELSE IF Less(y, x) THEN y ELSE x
MathMax(x, y) == IF IsNaN(x) \/ IsNaN(y) THEN NaN ELSE IF Less(x, y) THEN y ELSE x
Times(x, k) == Float(x.num * k, x.den)
\* ToIntegerOrInfinity: NaN becomes 0, anything else is truncated toward zero
Truncate(x) == IF IsNaN(x) THEN 0
               ELSE IF x.num >= 0 THEN x.num \div x.den
               ELSE 0 - ((0 - x.num) \div x.den)
\* the integer modulo 2^16, read as a signed 16-bit value
ToInt16(n) == ((n + 32768) % 65536) - 32768
ToUnsignedLongRoundsUp(x) == (x.num + x.den - 1) \div x.den
\* WebIDL unsigned long of a non-negative number below 2^32: its integer part
ToUnsignedLong(x) == Truncate(x)

\* dataInt16[k] / 32768.0: past the end dataInt16[k] is undefined and the
\* quotient NaN
DecodeSample(dataInt16, k) ==
    IF k < Len(dataInt16) THEN Float(dataInt16[k + 1], PcmScale) ELSE NaN

\* decodeAudioData(data, ctx, sampleRate, numChannels).  frameCount is the
\* quotient as a number; createBuffer takes its length as an unsigned long and
\* throws NotSupportedError for a length of 0; a write past the end of a
\* Float32Array is dropped.
decodeAudioData(dataInt16, sampleRate, numChannels) ==
    LET frameCount == Float(Len(dataInt16), numChannels)
        length == ToUnsignedLong(frameCount)
    IN IF length = 0
       THEN [thrown |-> TRUE]
       ELSE [thrown |-> FALSE,
             numberOfChannels |-> numChannels,
             length |-> length,
             sampleRate |-> sampleRate,
             channelData |->
               [channel \in 0..(numChannels - 1) |->
                  [i \in 0..(length - 1) |->
                     IF Less(Float(i, 1), frameCount)
                     THEN DecodeSample(dataInt16, i * numChannels + channel)
                     ELSE Float(0, 1)]]]

\* channels[i][offset]: undefined past the end of the channel
ChannelAt(audioBuffer, i, offset) ==
    IF offset < audioBuffer.length THEN audioBuffer.channelData[i][offset] ELSE NaN

ScaledSampleNoClamp(x) ==
    IF Less(x, Float(0, 1)) THEN Times(x, NegScale) ELSE Times(x, PosScale)
\* let sample = Math.max(-1, Math.min(1, x));
\* sample = sample < 0 ? sample * 0x8000 : sample * 0x7FFF
ScaledSample(x) ==
    LET sample == MathMax(Float(-1, 1), MathMin(Float(1, 1), x))
    IN IF Less(sample, Float(0, 1)) THEN Times(sample, NegScale)
       ELSE Times(sample, PosScale)
\* what view.setInt16(pos, sample, true) stores: the number truncated, modulo 2^16
EncodeSample(x) == ToInt16(Truncate(ScaledSample(x)))

\* DataView writes, little-endian; a write outside the buffer throws RangeError
InView(w, pos, size) == pos >= 0 /\ pos + size <= w.length
Throw(w) == [w EXCEPT !.thrown = TRUE]
SetUint8(w, pos, b) ==
    IF w.thrown \/ ~InView(w, pos, 1) THEN Throw(w)
    ELSE [w EXCEPT !.bytes[pos] = b % 256]
SetUint16(w, pos, n) ==
    IF w.thrown \/ ~InView(w, pos, 2) THEN Throw(w)
    ELSE [w EXCEPT !.bytes[pos] = n % 256, !.bytes[pos + 1] = (n \div 256) % 256]
SetUint32(w, pos, n) ==
    IF w.thrown \/ ~InView(w, pos, 4) THEN Throw(w)
    ELSE [w EXCEPT !.bytes[pos] = n % 256,
                   !.bytes[pos + 1] = (n \div 256) % 256,
                   !.bytes[pos + 2] = (n \div 65536) % 256,
                   !.bytes[pos + 3] = (n \div 16777216) % 256]
SetInt16(w, pos, n) == SetUint16(w, pos, (n + 65536) % 65536)

\* writeString(view, offset, string), the string given by its char codes
RECURSIVE writeString(_, _, _)
writeString(w, offset, codes) ==
    IF codes = <<>> THEN w
    ELSE writeString(SetUint8(w, offset, Head(codes)), offset + 1, Tail(codes))

RIFF == <<82, 73, 70, 70>>
WAVE == <<87, 65, 86, 69>>
FMT == <<102, 109, 116, 32>>
DATA == <<100, 97, 116, 97>>

\* one header write followed by its pos += n
PutString(w, codes) == [writeString(w, w.pos, codes) EXCEPT !.pos = w.pos + 4]
PutUint32(w, n) == [SetUint32(w, w.pos, n) EXCEPT !.pos = w.pos + 4]
PutUint16Wide(w, n) == [SetUint16(w, w.pos, n) EXCEPT !.pos = w.pos + 4]
PutUint16(w, n) == [SetUint16(w, w.pos, n) EXCEPT !.pos = w.pos + 2]

\* the header writes of createWavFile, in order
WriteHeader(w0, audioBuffer) ==
    LET n == audioBuffer.numberOfChannels
        rate == audioBuffer.sampleRate
        w1 == PutString(w0, RIFF)
        w2 == PutUint32(w1, w0.length - 8)
        w3 == PutString(w2, WAVE)
        w4 == PutString(w3, FMT)
        w5 == PutUint32(w4, FmtChunkSize)
        w6 == PutUint16(w5, PcmFormat)
        w7 == PutUint16(w6, n)
        w8 == PutUint32(w7, rate)
        w9 == PutUint32(w8, rate * n * 2)
        w10 == PutUint16(w9, n * 2)
        w11 == PutUint16(w10, BitsPerSample)
        w12 == PutString(w11, DATA)
    IN PutUint32(w12, w12.length - w12.pos - 4)

\* for (let i = 0; i < numberOfChannels; i++) { ...setInt16(pos, sample); pos += 2 }
RECURSIVE WriteFrame(_, _, _)
WriteFrame(w, audioBuffer, i) ==
    IF i >= audioBuffer.numberOfChannels \/ w.thrown THEN w
    ELSE WriteFrame(
           [SetInt16(w, w.pos, EncodeSample(ChannelAt(audioBuffer, i, w.offset)))
              EXCEPT !.pos = w.pos + 2],
           audioBuffer, i + 1)

\* while (pos < length) { for (...) {...}; offset++ }
RECURSIVE WriteFrames(_, _)
WriteFrames(w, audioBuffer) ==
    IF ~(w.pos < w.length) \/ w.thrown THEN w
    ELSE WriteFrames([WriteFrame(w, audioBuffer, 0) EXCEPT !.offset = w.offset + 1],
                     audioBuffer)

\* createWavFile(audioBuffer): the bytes of the Blob
createWavFile(audioBuffer) ==
    LET length == audioBuffer.length * audioBuffer.numberOfChannels * 2 + HeaderBytes
        view == [length |-> length, bytes |-> [p \in 0..(length - 1) |-> 0],
                 pos |-> 0, offset |-> 0, thrown |-> FALSE]
    IN WriteFrames(WriteHeader(view, audioBuffer), audioBuffer)

\* a standard reader's view of the file
Uint16At(w, pos) == w.bytes[pos] + 256 * w.bytes[pos + 1]
Uint32At(w, pos) == w.bytes[pos] + 256 * w.bytes[pos + 1] + 65536 * w.bytes[pos + 2]
                    + 16777216 * w.bytes[pos + 3]
SampleAt(w, pos) == ToInt16(Uint16At(w, pos))
StringAt(w, pos) == [k \in 1..4 |-> w.bytes[pos + k - 1]]

\* the codec's workspace: the int16 values of a response, the AudioBuffer
\* decoded from them, the file encoded from the buffer
Workspace(stage, n, data, buffer, wav) ==
    [stage |-> stage, numChannels |-> n, data |-> data, buffer |-> buffer, wav |-> wav]
NoBuffer == [thrown |-> TRUE]
NoFile == [thrown |-> TRUE]
NoCodec == Workspace("idle", 1, <<>>, NoBuffer, NoFile)

\* the inputs the codec is applied to: every single 16-bit sample in mono, and
\* every short response over the extreme samples for each channel count
EdgeSamples == {-32768, -1, 0, 1, 32767}
Responses == UNION { [1..k -> EdgeSamples] : k \in 0..MaxInts }
\* buffers that are no decoder output: one mono frame holding a number outside
\* [-1, 1], between two 16-bit steps, or NaN
OtherFloats == { Float(-49152, 32768), Float(-32769, 32768), Float(32769, 32768),
                 Float(49152, 32768), Float(-3, 65536), Float(3, 65536), NaN }
MonoFrame(x) ==
    [thrown |-> FALSE, numberOfChannels |-> 1, length |-> 1, sampleRate |-> SampleRate,
     channelData |-> [channel \in {0} |-> [i \in {0} |-> x]]]

-----------------------------------------------------------------------------
\* the state of a component after construction and its mount effect
SessionInit ==
    /\ component \in {"TtsTool", "AiTtsPreview"}
    /\ envApiKey \in BOOLEAN
    /\ aistudio \in BOOLEAN
    /\ mounted = TRUE
    /\ isMountedRef = TRUE
    /\ text = DefaultText
    /\ engine = "gemini"
    /\ selectedVoiceName = FirstVoice
    /\ isPlaying = FALSE
    /\ isLoading = FALSE
    /\ error = NULL
    /\ generatedAudio = NoAudio
    \* checkKey in the mount effect: without aistudio the env key sets hasApiKey at once
    /\ hasApiKey = (~aistudio /\ envApiKey)
    /\ keyChecks = IF aistudio THEN 1 ELSE 0
    /\ keyPickers = 0
    /\ audioContextRef = 0
    /\ contexts = [c \in ContextSlots |-> "free"]
    /\ sourceNodeRef = 0
    /\ sources = [s \in SourceSlots |-> FreeSource]
    /\ staleEnded = 0
    /\ utterances = <<>>
    /\ staleUtterances = 0
    /\ requests = <<>>
    /\ effectEngine = "gemini"
    /\ last = [op |-> "mount", loading |-> FALSE, playing |-> FALSE]

Init == SessionInit /\ codec = NoCodec

IsTool == component = "TtsTool"
IsPreview == component = "AiTtsPreview"

NewRequest == [status |-> "pending", voice |-> selectedVoiceName, payload |-> "none"]
CanRequest == Len(requests) < MaxRequests
\* the sequence without its r-th element
Without(seq, r) == [i \in 1..(Len(seq) - 1) |-> IF i < r THEN seq[i] ELSE seq[i + 1]]

----------------------------------------------------------------------------
\* TtsTool

\* disabled= of the Generate button
GenerateDisabledIgnoresLoading == isPlaying \/ BlankScript(text) \/ OverLimit(text)
                                \/ (engine = "gemini" /\ NoCredential)
GenerateDisabled == isLoading \/ isPlaying \/ BlankScript(text) \/ OverLimit(text)
                    \/ (engine = "gemini" /\ NoCredential)

\* the playback panel is rendered
PanelVisible == generatedAudio # NoAudio \/ (engine = "system" /\ isPlaying)

\* the Download WAV button is rendered: inside the result panel, under
\* generatedAudio && engine === 'gemini'
DownloadOffered ==
    IsTool /\ PanelVisible /\ generatedAudio # NoAudio /\ engine = "gemini"

\* TtsTool.stopAudio() of a render whose engine is eng: what it does to the
\* audio graph, and what it does to the speech queue
Tool_stopSource(a, eng) == IF eng = "gemini" THEN StopSource(a) ELSE a
\* the speech queue that stopAudio() of a render whose engine is eng leaves
\* behind, and one whose system branch cancels nothing
Tool_speechAfterStopKeeps(eng) == utterances
Tool_speechAfterStop(eng) == IF eng = "gemini" THEN utterances ELSE <<>>
\* a stopAudio whose system branch leaves the speech queue alone
Tool_stopSpeechKeeps(eng) == UNCHANGED speech
Tool_stopSpeech(eng) == IF eng = "gemini" THEN UNCHANGED speech ELSE CancelSpeech

\* TtsTool.playBuffer(buffer); it and the stopAudio it calls belong to a render
\* whose engine is 'gemini' (handleGenerate past the system branch, or the panel
\* button's gemini branch)
playBuffer(a, buf) ==
    IF a.cref = 0 THEN a ELSE StartSource(Tool_stopSource(a, "gemini"), buf)
CanPlayBuffer(a) == a.cref = 0 \/ CanStartSource(Tool_stopSource(a, "gemini"))

\* TtsTool.handleGenerate up to its first await
handleGenerate ==
    /\ UNCHANGED <<env, life, inputs, keys, effectEngine>>
    /\ IF BlankScript(text)
       THEN UNCHANGED <<flags, audio, speech, requests>>
       ELSE IF OverLimit(text)
       THEN /\ error' = ErrLimit
            /\ UNCHANGED <<isPlaying, isLoading, generatedAudio, audio, speech, requests>>
       ELSE /\ generatedAudio' = NoAudio
            /\ SetAudio(Tool_stopSource(Now, engine))
            /\ isPlaying' = FALSE
            /\ IF engine = "system"
               THEN \* stopAudio() cancels, then speechSynthesis.speak(utterance)
                    LET kept == Tool_speechAfterStop(engine)
                        cancelled == Len(utterances) - Len(kept)
                    IN /\ staleUtterances + cancelled <= MaxStale
                       /\ staleUtterances' = staleUtterances + cancelled
                       /\ utterances' = Append(kept, "queued")
                    /\ error' = NULL
                    /\ isLoading' = FALSE
                    /\ UNCHANGED requests
               ELSE /\ UNCHANGED speech
                    /\ IF NoCredential
                       THEN /\ error' = ErrAuthTool
                            /\ isLoading' = FALSE
                            /\ UNCHANGED requests
                       ELSE /\ CanRequest
                            /\ error' = NULL
                            /\ isLoading' = TRUE
                            /\ requests' = Append(requests, NewRequest)

\* click on the Generate button
ClickGenerate ==
    /\ IsTool /\ mounted
    /\ ~GenerateDisabled
    /\ last' = Did("handleGenerate")
    /\ handleGenerate

\* click on the panel's play/stop button:
\* isPlaying ? stopAudio() : (engine === 'gemini' ? playBuffer(generatedAudio!) : handleGenerate())
ClickPanel ==
    /\ IsTool /\ mounted
    /\ PanelVisible
    /\ IF isPlaying
       THEN /\ last' = Did("stopAudio")
            /\ SetAudio(Tool_stopSource(Now, engine))
            /\ Tool_stopSpeech(engine)
            /\ isPlaying' = FALSE
            /\ UNCHANGED <<env, life, inputs, isLoading, error, generatedAudio, keys,
                           requests, effectEngine>>
       ELSE IF engine = "gemini"
       THEN /\ last' = Did("playBuffer")
            /\ CanPlayBuffer(Now)
            /\ SetAudio(playBuffer(Now, generatedAudio))
            /\ isPlaying' = (audioContextRef # 0 \/ isPlaying)
            /\ UNCHANGED <<env, life, inputs, isLoading, error, generatedAudio, keys,
                           speech, requests, effectEngine>>
       ELSE /\ last' = Did("handleGenerate")
            /\ handleGenerate

handleDownloadStopsPlayback ==
    /\ SetAudio(StopSource(Now))
    /\ isPlaying' = FALSE
    /\ UNCHANGED <<env, life, inputs, isLoading, error, generatedAudio, speech, keys,
                   requests, effectEngine>>
\* TtsTool.handleDownload: if (!generatedAudio) return; otherwise the retained
\* buffer is encoded by createWavFile and saved through a temporary anchor
\* element; no state of the component is written
handleDownload ==
    IF generatedAudio = NoAudio
    THEN UNCHANGED <<env, life, inputs, flags, audio, speech, keys, requests, effectEngine>>
    ELSE UNCHANGED <<env, life, inputs, flags, audio, speech, keys, requests, effectEngine>>

\* click on the Download WAV button
ClickDownload ==
    /\ IsTool /\ mounted
    /\ DownloadOffered
    /\ last' = Did("handleDownload")
    /\ handleDownload

\* click on one of the two engine toggle buttons:
\* setEngine(e); stopAudio(); setGeneratedAudio(null)
ClickEngine(e) ==
    /\ IsTool /\ mounted
    /\ last' = Did("setEngine")
    /\ engine' = e
    /\ SetAudio(Tool_stopSource(Now, engine))
    /\ Tool_stopSpeech(engine)
    /\ isPlaying' = FALSE
    /\ generatedAudio' = NoAudio
    /\ UNCHANGED <<env, life, text, selectedVoiceName, isLoading, error, keys, requests,
                   effectEngine>>

SelectVoiceKeepsAudio(v) ==
    /\ IsTool /\ mounted
    /\ engine = "gemini"
    /\ v # selectedVoiceName
    /\ last' = Did("setSelectedVoiceName")
    /\ selectedVoiceName' = v
    /\ SetAudio(Tool_stopSource(Now, engine))
    /\ Tool_stopSpeech(engine)
    /\ isPlaying' = FALSE
    /\ UNCHANGED <<env, life, text, engine, isLoading, error, generatedAudio, keys,
                   requests, effectEngine>>
\* the cloud voice select (rendered while engine is 'gemini'):
\* setSelectedVoiceName(v); setGeneratedAudio(null); stopAudio()
SelectVoice(v) ==
    /\ IsTool /\ mounted
    /\ engine = "gemini"
    /\ v # selectedVoiceName
    /\ last' = Did("setSelectedVoiceName")
    /\ selectedVoiceName' = v
    /\ generatedAudio' = NoAudio
    /\ SetAudio(Tool_stopSource(Now, engine))
    /\ Tool_stopSpeech(engine)
    /\ isPlaying' = FALSE
    /\ UNCHANGED <<env, life, text, engine, isLoading, error, keys, requests, effectEngine>>

\* a continuation of handleGenerate without its finally: isLoading is left as it was
Tool_decodeAndPlayKeepsLoading(r, payload, a) ==
    /\ requests' = Without(requests, r)
    /\ UNCHANGED isLoading
    /\ IF payload = "malformed"
       THEN /\ error' = ErrThrown
            /\ SetAudio(a)
            /\ UNCHANGED <<generatedAudio, isPlaying>>
       ELSE /\ generatedAudio' = Buffer(requests[r])
            /\ CanPlayBuffer(a)
            /\ SetAudio(playBuffer(a, Buffer(requests[r])))
            /\ isPlaying' = (a.cref # 0 \/ isPlaying)
            /\ UNCHANGED error

\* the rest of handleGenerate once the audio context is ready: decode, retain, play
Tool_decodeAndPlay(r, payload, a) ==
    /\ requests' = Without(requests, r)
    /\ isLoading' = FALSE
    /\ IF payload = "malformed"
       THEN /\ error' = ErrThrown
            /\ SetAudio(a)
            /\ UNCHANGED <<generatedAudio, isPlaying>>
       ELSE /\ generatedAudio' = Buffer(requests[r])
            /\ CanPlayBuffer(a)
            /\ SetAudio(playBuffer(a, Buffer(requests[r])))
            /\ isPlaying' = (a.cref # 0 \/ isPlaying)
            /\ UNCHANGED error

Tool_failKeepsLoading(r, msg) ==
    /\ requests' = Without(requests, r)
    /\ error' = msg
    /\ UNCHANGED <<isLoading, generatedAudio, isPlaying>>
Tool_failRetries(r, msg) ==
    /\ requests' = Append(Without(requests, r), NewRequest)
    /\ error' = msg
    /\ isLoading' = FALSE
    /\ UNCHANGED <<generatedAudio, isPlaying>>
\* catch + finally of handleGenerate
Tool_fail(r, msg) ==
    /\ requests' = Without(requests, r)
    /\ error' = msg
    /\ isLoading' = FALSE
    /\ UNCHANGED <<generatedAudio, isPlaying>>

\* the generateContent promise settles and handleGenerate resumes; nothing in it
\* looks at whether the component is still mounted
Tool_BackendResponds(r, outcome, fresh) ==
    /\ IsTool
    /\ r \in 1..Len(requests) /\ requests[r].status = "pending"
    /\ last' = Async
    /\ UNCHANGED <<env, life, inputs, keys, speech, effectEngine>>
    /\ IF outcome \in {"reject", "text", "empty"}
       THEN /\ fresh = "running"
            /\ Tool_fail(r, CASE outcome = "reject" -> ErrThrown
                              [] outcome = "text" -> ErrTextResponse
                              [] OTHER -> ErrNoAudio)
            /\ UNCHANGED audio
       ELSE LET create == CtxState(audioContextRef) \in {"none", "closed"}
                a == IF create THEN NewContext(Now, fresh) ELSE Now
            IN /\ create \/ fresh = "running"
               /\ create => CanCreateContext(Now)
               /\ IF a.ctxs[a.cref] = "suspended"
                  THEN \* await audioContextRef.current.resume()
                       /\ requests' = [requests EXCEPT ![r].status = "resume",
                                                       ![r].payload = outcome]
                       /\ SetAudio(a)
                       /\ UNCHANGED flags
                  ELSE Tool_decodeAndPlay(r, outcome, a)

\* audioContext.resume() settles: it rejects on a context closed meanwhile
Tool_ResumeSettles(r) ==
    /\ IsTool
    /\ r \in 1..Len(requests) /\ requests[r].status = "resume"
    /\ last' = Async
    /\ UNCHANGED <<env, life, inputs, keys, speech, effectEngine>>
    /\ IF contexts[audioContextRef] = "closed"
       THEN /\ Tool_fail(r, ErrThrown)
            /\ UNCHANGED audio
       ELSE Tool_decodeAndPlay(r, requests[r].payload,
                               [Now EXCEPT !.ctxs[audioContextRef] = "running"])

Tool_onendedKeepsPlaying ==
    UNCHANGED <<env, life, inputs, flags, keys, speech, requests, effectEngine>>
\* source.onended = () => setIsPlaying(false)
Tool_onended ==
    /\ isPlaying' = FALSE
    /\ UNCHANGED <<env, life, inputs, isLoading, error, generatedAudio, keys, speech,
                   requests, effectEngine>>

\* a sounding source plays its buffer to the end
Tool_SourceEnds(s) ==
    /\ IsTool
    /\ s \in SoundingSources
    /\ last' = Async
    /\ SetAudio([Now EXCEPT !.srcs[s] = EndedSource])
    /\ Tool_onended

\* the ended event of a source that stop() halted is delivered
Tool_StoppedSourceEnded ==
    /\ IsTool
    /\ staleEnded > 0
    /\ last' = Async
    /\ SetAudio([Now EXCEPT !.ended = @ - 1])
    /\ Tool_onended

UtteranceFrame ==
    UNCHANGED <<env, life, inputs, isLoading, generatedAudio, keys, audio, requests,
                effectEngine>>

\* utterance.onstart = () => setIsPlaying(true): the head of the queue starts
UtteranceStarts ==
    /\ IsTool
    /\ utterances # <<>> /\ Head(utterances) = "queued"
    /\ last' = Async
    /\ utterances' = [utterances EXCEPT ![1] = "speaking"]
    /\ isPlaying' = TRUE
    /\ UNCHANGED <<error, staleUtterances>>
    /\ UtteranceFrame

\* utterance.onend = () => setIsPlaying(false)
UtteranceEnds ==
    /\ IsTool
    /\ utterances # <<>> /\ Head(utterances) = "speaking"
    /\ last' = Async
    /\ utterances' = Tail(utterances)
    /\ isPlaying' = FALSE
    /\ UNCHANGED <<error, staleUtterances>>
    /\ UtteranceFrame

\* utterance.onerror: the platform fails to speak the head of the queue
UtteranceFails ==
    /\ IsTool
    /\ utterances # <<>>
    /\ last' = Async
    /\ utterances' = Tail(utterances)
    /\ error' = ErrSystemFailed
    /\ isPlaying' = FALSE
    /\ UNCHANGED staleUtterances
    /\ UtteranceFrame

\* the notification of an utterance that cancel() removed: the platform reports
\* it as an end or as an error (interrupted / canceled)
CancelledUtteranceNotifies(how) ==
    /\ IsTool
    /\ staleUtterances > 0
    /\ last' = Async
    /\ staleUtterances' = staleUtterances - 1
    /\ error' = IF how = "end" THEN error ELSE ErrSystemFailed
    /\ isPlaying' = FALSE
    /\ UNCHANGED utterances
    /\ UtteranceFrame

\* cleanup of the TtsTool effect: stopAudio of the render the effect ran in,
\* close the context if there is one, cancel speech
Tool_cleanup ==
    /\ SetAudio(CloseContext(Tool_stopSource(Now, effectEngine)))
    /\ CancelSpeech
    /\ isPlaying' = FALSE

\* onClose (X button, backdrop, Escape): the parent unmounts the tool
Tool_Unmount ==
    /\ IsTool /\ mounted
    /\ last' = Did("unmount")
    /\ mounted' = FALSE
    /\ Tool_cleanup
    /\ UNCHANGED <<env, isMountedRef, inputs, isLoading, error, generatedAudio, keys,
                   requests, effectEngine>>

\* the parent re-renders with a new onClose function: the effect's dependency
\* changed, so its cleanup runs and the effect runs again in the current render
Tool_ParentRerender ==
    /\ IsTool /\ mounted
    /\ aistudio => keyChecks < MaxPromises
    /\ last' = Did("rerender")
    /\ Tool_cleanup
    /\ effectEngine' = engine
    /\ IF aistudio
       THEN keyChecks' = keyChecks + 1 /\ UNCHANGED hasApiKey
       ELSE /\ hasApiKey' = (hasApiKey \/ envApiKey)
            /\ UNCHANGED keyChecks
    /\ UNCHANGED <<env, life, inputs, isLoading, error, generatedAudio, keyPickers, requests>>

----------------------------------------------------------------------------
\* AiTtsPreview

\* AiTtsPreview.stopAudio(): setIsPlaying(false) only while mounted
Preview_stopAudio ==
    /\ SetAudio(StopSource(Now))
    /\ isPlaying' = IF isMountedRef THEN FALSE ELSE isPlaying

\* if (isLoading) return;
PreviewBusyNever == FALSE
PreviewBusy == isLoading

\* AiTtsPreview.handlePlay up to its first await
handlePlay ==
    /\ last' = Did("handlePlay")
    /\ UNCHANGED <<env, life, inputs, generatedAudio, keys, speech, effectEngine>>
    /\ IF PreviewBusy
       THEN UNCHANGED <<isPlaying, isLoading, error, audio, requests>>
       ELSE IF isPlaying
       THEN /\ Preview_stopAudio
            /\ UNCHANGED <<isLoading, error, requests>>
       ELSE IF OverLimit(text)
       THEN /\ error' = ErrLimit
            /\ UNCHANGED <<isPlaying, isLoading, audio, requests>>
       ELSE IF NoCredential
       THEN /\ error' = ErrAuthPreview
            /\ UNCHANGED <<isPlaying, isLoading, audio, requests>>
       ELSE /\ CanRequest
            /\ isLoading' = TRUE
            /\ error' = NULL
            /\ requests' = Append(requests, NewRequest)
            /\ UNCHANGED <<isPlaying, audio>>

\* click on the Listen / Stop button, disabled={isLoading}
ClickPlay ==
    /\ IsPreview /\ mounted
    /\ ~isLoading
    /\ handlePlay

\* click on the visualizer area below the controls, onClick={handlePlay}
ClickPreviewArea ==
    /\ IsPreview /\ mounted
    /\ handlePlay

\* the voice select, disabled={isLoading || isPlaying}
Preview_SelectVoice(v) ==
    /\ IsPreview /\ mounted
    /\ ~(isLoading \/ isPlaying)
    /\ v # selectedVoiceName
    /\ last' = Did("setSelectedVoiceName")
    /\ selectedVoiceName' = v
    /\ UNCHANGED <<env, life, text, engine, flags, audio, speech, keys, requests,
                   effectEngine>>

Preview_failKeepsLoading(r, msg) ==
    /\ requests' = Without(requests, r)
    /\ error' = IF isMountedRef THEN msg ELSE error
    /\ UNCHANGED <<isLoading, isPlaying, generatedAudio>>
\* catch + finally of handlePlay, both behind isMountedRef.current
Preview_fail(r, msg) ==
    /\ requests' = Without(requests, r)
    /\ error' = IF isMountedRef THEN msg ELSE error
    /\ isLoading' = IF isMountedRef THEN FALSE ELSE isLoading
    /\ UNCHANGED <<isPlaying, generatedAudio>>

\* the rest of handlePlay once the audio context is ready: decode, second
\* liveness check, start a source (no stopAudio() before it)
Preview_decodeAndPlay(r, payload, a) ==
    IF payload = "malformed"
    THEN Preview_fail(r, ErrThrown) /\ SetAudio(a)
    ELSE /\ requests' = Without(requests, r)
         /\ UNCHANGED <<error, generatedAudio>>
         /\ IF ~isMountedRef
            THEN SetAudio(a) /\ UNCHANGED <<isPlaying, isLoading>>
            ELSE /\ CanStartSource(a)
                 /\ SetAudio(StartSource(a, Buffer(requests[r])))
                 /\ isPlaying' = TRUE
                 /\ isLoading' = FALSE

\* the generateContent promise settles and handlePlay resumes
Preview_BackendResponds(r, outcome, fresh) ==
    /\ IsPreview
    /\ r \in 1..Len(requests) /\ requests[r].status = "pending"
    /\ last' = Async
    /\ UNCHANGED <<env, life, inputs, keys, speech, effectEngine>>
    /\ IF outcome = "reject"
       THEN fresh = "running" /\ Preview_fail(r, ErrThrown) /\ UNCHANGED audio
       ELSE IF ~isMountedRef
       THEN /\ fresh = "running"
            /\ requests' = Without(requests, r)
            /\ UNCHANGED <<flags, audio>>
       ELSE IF outcome \in {"text", "empty"}
       THEN fresh = "running" /\ Preview_fail(r, ErrPreviewNoAudio) /\ UNCHANGED audio
       ELSE IF CtxState(audioContextRef) \in {"none", "closed"}
       THEN \* a context created here is not resumed
            /\ CanCreateContext(Now)
            /\ Preview_decodeAndPlay(r, outcome, NewContext(Now, fresh))
       ELSE /\ fresh = "running"
            /\ IF contexts[audioContextRef] = "suspended"
               THEN /\ requests' = [requests EXCEPT ![r].status = "resume",
                                                    ![r].payload = outcome]
                    /\ UNCHANGED <<flags, audio>>
               ELSE Preview_decodeAndPlay(r, outcome, Now)

\* audioContext.resume() settles: it rejects on a context closed meanwhile
Preview_ResumeSettles(r) ==
    /\ IsPreview
    /\ r \in 1..Len(requests) /\ requests[r].status = "resume"
    /\ last' = Async
    /\ UNCHANGED <<env, life, inputs, keys, speech, effectEngine>>
    /\ IF contexts[audioContextRef] = "closed"
       THEN Preview_fail(r, ErrThrown) /\ UNCHANGED audio
       ELSE Preview_decodeAndPlay(r, requests[r].payload,
                                  [Now EXCEPT !.ctxs[audioContextRef] = "running"])

\* source.onended = () => { if (isMountedRef.current) setIsPlaying(false) }
Preview_onended ==
    /\ isPlaying' = IF isMountedRef THEN FALSE ELSE isPlaying
    /\ UNCHANGED <<env, life, inputs, isLoading, error, generatedAudio, keys, speech,
                   requests, effectEngine>>

\* a sounding source plays its buffer to the end
Preview_SourceEnds(s) ==
    /\ IsPreview
    /\ s \in SoundingSources
    /\ last' = Async
    /\ SetAudio([Now EXCEPT !.srcs[s] = EndedSource])
    /\ Preview_onended

\* the ended event of a source that stop() halted is delivered
Preview_StoppedSourceEnded ==
    /\ IsPreview
    /\ staleEnded > 0
    /\ last' = Async
    /\ SetAudio([Now EXCEPT !.ended = @ - 1])
    /\ Preview_onended

\* the parent unmounts the preview: cleanup of the mount effect
Preview_Unmount ==
    /\ IsPreview /\ mounted
    /\ last' = Did("unmount")
    /\ mounted' = FALSE
    /\ isMountedRef' = FALSE
    \* stopAudio() runs after isMountedRef.current = false
    /\ SetAudio(LET a == StopSource(Now) IN
                IF a.cref # 0 /\ a.ctxs[a.cref] # "closed" THEN CloseContext(a) ELSE a)
    /\ UNCHANGED <<env, inputs, flags, speech, keys, requests, effectEngine>>

----------------------------------------------------------------------------
\* Both components

\* the script changes: the TtsTool textarea, the AiTtsPreview text prop
SetText(t) ==
    /\ mounted
    /\ t # text
    /\ last' = Did("setText")
    /\ text' = t
    /\ UNCHANGED <<env, life, engine, selectedVoiceName, flags, audio, speech, keys,
                   requests, effectEngine>>

\* hasSelectedApiKey() resolves inside checkKey; AiTtsPreview looks at
\* isMountedRef before setHasApiKey, TtsTool does not
KeyCheckResolves(b) ==
    /\ keyChecks > 0
    /\ last' = Async
    /\ keyChecks' = keyChecks - 1
    /\ hasApiKey' = IF IsPreview /\ ~isMountedRef THEN hasApiKey ELSE b
    /\ UNCHANGED <<env, life, inputs, flags, audio, speech, keyPickers, requests,
                   effectEngine>>

\* the Set API Key button is rendered
KeyButtonVisible == /\ ~hasApiKey /\ ~envApiKey
                    /\ IsTool => engine = "gemini"

\* handleOpenKeyPicker up to its await
handleOpenKeyPicker ==
    /\ mounted
    /\ KeyButtonVisible
    /\ aistudio => keyPickers < MaxPromises
    /\ last' = Did("handleOpenKeyPicker")
    /\ keyPickers' = IF aistudio THEN keyPickers + 1 ELSE keyPickers
    /\ UNCHANGED <<env, life, inputs, flags, audio, speech, hasApiKey, keyChecks,
                   requests, effectEngine>>

\* openSelectKey() resolves: setHasApiKey(true); setError(null), in both
\* components without a look at whether the component is still mounted
KeyPickerResolves ==
    /\ keyPickers > 0
    /\ last' = Async
    /\ keyPickers' = keyPickers - 1
    /\ hasApiKey' = TRUE
    /\ error' = NULL
    /\ UNCHANGED <<env, life, inputs, isPlaying, isLoading, generatedAudio, audio, speech,
                   keyChecks, requests, effectEngine>>

----------------------------------------------------------------------------
Next ==
    \/ ClickGenerate
    \/ ClickPanel
    \/ ClickDownload
    \/ \E e \in Engines : ClickEngine(e)
    \/ \E v \in Voices : SelectVoice(v)
    \/ \E r \in 1..MaxRequests, o \in Outcomes, f \in FreshStates : Tool_BackendResponds(r, o, f)
    \/ \E r \in 1..MaxRequests : Tool_ResumeSettles(r)
    \/ \E s \in SourceSlots : Tool_SourceEnds(s)
    \/ Tool_StoppedSourceEnded
    \/ UtteranceStarts
    \/ UtteranceEnds
    \/ UtteranceFails
    \/ \E how \in {"end", "error"} : CancelledUtteranceNotifies(how)
    \/ Tool_Unmount
    \/ Tool_ParentRerender
    \/ ClickPlay
    \/ ClickPreviewArea
    \/ \E v \in Voices : Preview_SelectVoice(v)
    \/ \E r \in 1..MaxRequests, o \in Outcomes, f \in FreshStates : Preview_BackendResponds(r, o, f)
    \/ \E r \in 1..MaxRequests : Preview_ResumeSettles(r)
    \/ \E s \in SourceSlots : Preview_SourceEnds(s)
    \/ Preview_StoppedSourceEnded
    \/ Preview_Unmount
    \/ \E t \in Scripts : SetText(t)
    \/ \E b \in BOOLEAN : KeyCheckResolves(b)
    \/ handleOpenKeyPicker
    \/ KeyPickerResolves

Spec == Init /\ [][Next]_vars

-----------------------------------------------------------------------------
\* The codec on its own: Init draws a response (or a buffer), Decode applies
\* decodeAudioData to it and Encode applies createWavFile to the buffer.

CodecInit ==
    /\ SessionInit
    /\ component = "TtsTool" /\ envApiKey /\ ~aistudio
    /\ \/ \E v \in Int16 : codec = Workspace("bytes", 1, <<v>>, NoBuffer, NoFile)
       \/ \E n \in 1..MaxChannels, data \in Responses :
             codec = Workspace("bytes", n, data, NoBuffer, NoFile)
       \/ \E x \in OtherFloats :
             codec = Workspace("buffer", 1, <<>>, MonoFrame(x), NoFile)

\* const audioBuffer = await decodeAudioData(rawBytes, ctx, 24000): the call
\* sites leave numChannels at its default, the function takes any
Decode ==
    /\ codec.stage = "bytes"
    /\ LET buffer == decodeAudioData(codec.data, SampleRate, codec.numChannels)
       IN codec' = [codec EXCEPT !.stage = IF buffer.thrown THEN "rejected" ELSE "buffer",
                                 !.buffer = buffer]
    /\ UNCHANGED <<component, envApiKey, aistudio, session, last>>

\* const wavBlob = createWavFile(generatedAudio)
Encode ==
    /\ codec.stage = "buffer"
    /\ codec' = [codec EXCEPT !.stage = "file", !.wav = createWavFile(codec.buffer)]
    /\ UNCHANGED <<component, envApiKey, aistudio, session, last>>

CodecNext == Decode \/ Encode

CodecSpec == CodecInit /\ [][CodecNext]_vars

----------------------------------------------------------------------------
\* Events of a step, read off the two states

\* ctx.createBufferSource() ... source.start(): the step leaves a started
\* source in sourceNodeRef that was not there before
SourceStarted ==
    /\ sourceNodeRef' # 0
    /\ sources'[sourceNodeRef'].status = "playing"
    /\ \/ sourceNodeRef # sourceNodeRef'
       \/ sources[sourceNodeRef].status # "playing"
       \/ staleEnded' > staleEnded

\* new AudioContext(...): a slot holds a live context that it did not hold before
LiveContexts == { c \in ContextSlots : contexts[c] \in {"running", "suspended"} }
ContextCreated == \E c \in ContextSlots : c \in LiveContexts' /\ c \notin LiveContexts

\* the step delivers a callback of a stopped source or of a cancelled utterance
StaleCallback == staleEnded' < staleEnded \/ staleUtterances' < staleUtterances

\* the step is the play trigger pressed while Playing
ToggleWhilePlaying ==
    \/ IsTool /\ last'.op = "stopAudio"
    \/ IsPreview /\ last'.op = "handlePlay" /\ isPlaying /\ ~isLoading

\* the step is a generate request: handleGenerate in TtsTool; in AiTtsPreview
\* handlePlay when the trigger is neither ignored (Loading) nor a stop (Playing)
GenerateRequest ==
    \/ IsTool /\ last'.op = "handleGenerate"
    \/ IsPreview /\ last'.op = "handlePlay" /\ ~isLoading /\ ~isPlaying

----------------------------------------------------------------------------
\* Claims

\* C1: in TtsTool a cloud buffer source and a local speech utterance are never
\* sounding at the same time, whatever the interleaving of clicks and responses.
C1_NoCrossEngineDoublePlayback ==
    IsTool => ~(SoundingSources # {} /\ Speaking # {})

\* C2: in TtsTool at most one cloud buffer source is sounding at any time; a
\* new source starts only after the previously started one was stopped.
C2_OneCloudSourceSounding ==
    IsTool => Cardinality(SoundingSources) <= 1

\* a source sounds right after playBuffer, and the source it replaced or that
\* was stopped before it still has its ended event queued
C2_SourceReplaced ==
    /\ IsTool /\ last.op = "playBuffer"
    /\ SoundingSources # {} /\ staleEnded > 0

\* C3: once TtsTool is disposed, no step (a late backend response in
\* particular) creates an audio context, starts a source or sets isPlaying.
C3_DisposedStaysInactive ==
    [][IsTool /\ ~mounted =>
         /\ ~ContextCreated
         /\ ~SourceStarted
         /\ (isPlaying' => isPlaying)]_vars

\* C4: once TtsTool is disposed and every in-flight response has been
\* delivered, no audio context is left unclosed.
C4_NoContextLeak ==
    IsTool /\ ~mounted /\ requests = <<>> => LiveContexts = {}

\* C5: after AiTtsPreview has unmounted, no step changes isPlaying, isLoading,
\* error or hasApiKey, and no step starts a source.
C5_UnmountedPreviewIsInert ==
    [][IsPreview /\ ~isMountedRef =>
         /\ UNCHANGED <<isPlaying, isLoading, error, hasApiKey>>
         /\ ~SourceStarted]_vars

\* C6: a callback of a superseded session (onended of a stopped source,
\* end/error of a cancelled utterance) delivered while a newer session is
\* sounding leaves isPlaying true and error unchanged.
C6_StaleCallbackIgnored ==
    [][StaleCallback /\ isPlaying /\ (SoundingSources # {} \/ Speaking # {}) =>
         isPlaying' /\ error' = error]_vars

\* C7: in AiTtsPreview handlePlay invoked while isLoading is a no-op: no backend
\* call, no source started or stopped, isLoading, isPlaying and error unchanged.
C7_HandlePlayWhileLoadingIsNoOp ==
    [][IsPreview /\ isLoading /\ last'.op = "handlePlay" =>
         UNCHANGED <<requests, audio, isLoading, isPlaying, error>>]_vars

\* handlePlay has run while a request was in flight, and the request still is
C7_PlayPressedWhileLoading ==
    /\ IsPreview /\ last.op = "handlePlay" /\ last.loading
    /\ isLoading /\ requests # <<>>

\* C8: in TtsTool at most one cloud request is outstanding, and while isLoading
\* no user action issues a backend request or changes the retained buffer.
C8_OneOutstandingRequest ==
    [][IsTool =>
         /\ Len(requests') <= 1
         /\ (isLoading /\ last'.op # "async" =>
               requests' = requests /\ generatedAudio' = generatedAudio)]_vars

\* the engine toggle was clicked while the request was in flight
C8_EngineToggledWhileLoading ==
    /\ IsTool /\ last.op = "setEngine" /\ last.loading
    /\ isLoading /\ Len(requests) = 1

\* C9: the play trigger pressed while Playing stops the current output, sets
\* isPlaying false, issues no backend or speech call and starts no session.
C9_ToggleStopsOutput ==
    [][ToggleWhilePlaying =>
         /\ SoundingSources' = {} /\ Speaking' = {}
         /\ ~isPlaying'
         /\ requests' = requests
         /\ Len(utterances') <= Len(utterances)
         /\ ~SourceStarted]_vars

\* C10: a generate request with more than MAX_WORDS words sets the limit error
\* and changes nothing else (no request, no utterance, flags, buffer and
\* playback as before); one with exactly MAX_WORDS words is not rejected by the
\* limit.  In TtsTool on both engines, and in AiTtsPreview.
C10_WordLimitGate ==
    [][GenerateRequest =>
         /\ (wordCount(text) > MAX_WORDS =>
               /\ error' = ErrLimit
               /\ UNCHANGED <<isLoading, isPlaying, generatedAudio, audio, speech, requests>>)
         /\ (wordCount(text) = MAX_WORDS => error' # ErrLimit)]_vars

\* a generate request on an over-limit script has been rejected
C10_OverLimitRejected ==
    /\ last.op \in {"handleGenerate", "handlePlay"}
    /\ ~last.loading /\ ~last.playing
    /\ wordCount(text) > MAX_WORDS /\ error = ErrLimit

\* C11: a generate request on an empty or whitespace-only script issues no
\* cloud request and no speak call, and does not enter Loading.
C11_BlankScriptNeverDispatched ==
    [][last'.op \in {"handleGenerate", "handlePlay"} /\ BlankScript(text) /\ ~isLoading /\ ~isPlaying =>
         /\ requests' = requests
         /\ utterances' = utterances
         /\ ~isLoading']_vars

\* C12: a cloud generate request made with no credential (no API_KEY, hasApiKey
\* false) sets an authentication error, issues no backend call and leaves
\* isLoading false; a generate request on the system engine speaks whether or
\* not a credential is present.
C12_AuthGate ==
    [][GenerateRequest /\ wordCount(text) <= MAX_WORDS /\ (IsTool => ~BlankScript(text)) =>
         /\ ((IsPreview \/ engine = "gemini") /\ ~envApiKey /\ ~hasApiKey =>
               /\ error' \in {ErrAuthTool, ErrAuthPreview}
               /\ requests' = requests
               /\ ~isLoading')
         /\ (IsTool /\ engine = "system" =>
               utterances' = <<"queued">> /\ error' = NULL /\ ~isLoading')]_vars

\* a cloud generate request has been refused for want of a credential
C12_AuthRequired ==
    /\ last.op \in {"handleGenerate", "handlePlay"}
    /\ error \in {ErrAuthTool, ErrAuthPreview}
    /\ ~envApiKey /\ ~hasApiKey /\ requests = <<>> /\ ~isLoading

\* the outcomes of the backend call that are failures of the cloud path
Failures == {"reject", "text", "empty", "malformed"}

\* the step is the cloud path failing: the call rejects, carries text or
\* nothing, decoding throws, or resume() rejects
CloudFails ==
    \E r \in 1..Len(requests) :
       \/ /\ Len(requests') < Len(requests)
          /\ \E o \in Failures, f \in FreshStates :
                Tool_BackendResponds(r, o, f) \/ Preview_BackendResponds(r, o, f)
       \/ /\ requests[r].status = "resume"
          /\ requests[r].payload = "malformed" \/ contexts[audioContextRef] = "closed"
          /\ Tool_ResumeSettles(r) \/ Preview_ResumeSettles(r)

\* the Error outcome: a message, not loading, not playing, nothing started,
\* nothing retained
ErrorOutcome ==
    /\ error' # NULL /\ ~isLoading' /\ ~isPlaying'
    /\ ~SourceStarted /\ generatedAudio' = NoAudio

\* C13 as stated: whenever the cloud path fails the session ends in the Error
\* outcome (message set, isLoading false, isPlaying false, no source started,
\* no retained buffer).
C13_CloudFailureEndsInError ==
    [][CloudFails => ErrorOutcome]_vars

\* C13 amended: whenever the cloud path fails in TtsTool, or in AiTtsPreview
\* while it is mounted, the session ends in the Error outcome.
C13_LiveCloudFailureEndsInError ==
    [][CloudFails /\ (IsPreview => isMountedRef) => ErrorOutcome]_vars

\* a request has failed and left its message
C13_FailureReported ==
    /\ last = Async /\ requests = <<>> /\ ~isLoading /\ ~isPlaying
    /\ error \in {ErrThrown, ErrTextResponse, ErrNoAudio, ErrPreviewNoAudio}

\* the step is TtsTool.handleGenerate continuing with a decoded audio payload:
\* the response carries audio and the context is running or resumes
AudioDecoded(r) ==
    \/ /\ requests[r].status = "pending" /\ Len(requests') < Len(requests)
       /\ \E f \in FreshStates : Tool_BackendResponds(r, "audio", f)
    \/ /\ requests[r].status = "resume" /\ requests[r].payload = "audio"
       /\ contexts[audioContextRef] # "closed"
       /\ Tool_ResumeSettles(r)

\* the step is a cloud generate in TtsTool from Idle, with a credential and a
\* non-empty script within the limit
IdleCloudGenerate ==
    /\ IsTool /\ last'.op = "handleGenerate"
    /\ ~isLoading /\ ~isPlaying
    /\ engine = "gemini" /\ (envApiKey \/ hasApiKey)
    /\ ~BlankScript(text) /\ wordCount(text) <= MAX_WORDS

\* C14: in TtsTool a cloud generate from Idle (credential, non-empty in-limit
\* script) enters Loading with one request; when its audio payload is decoded
\* the buffer is retained, a source playing that buffer is started and sounds,
\* and the session is Playing with isLoading false and error null.
C14_CloudSuccessPath ==
    [][/\ IdleCloudGenerate =>
             isLoading' /\ error' = NULL /\ requests' = Append(requests, NewRequest)
       /\ \A r \in 1..Len(requests) : AudioDecoded(r) =>
             /\ generatedAudio' = Buffer(requests[r])
             /\ sourceNodeRef' \in SoundingSources'
             /\ sources'[sourceNodeRef'].buffer = Buffer(requests[r])
             /\ isPlaying' /\ ~isLoading'
             /\ error' = NULL]_vars

----------------------------------------------------------------------------
\* The platform delivers what it owes: a sounding source plays to its end, a
\* speaking utterance finishes.  Nothing is assumed of the user, the backend or
\* the parent.
NaturalEnd ==
    \/ \E s \in SourceSlots : Tool_SourceEnds(s) \/ Preview_SourceEnds(s)
    \/ UtteranceEnds

FairSpec == Spec /\ WF_vars(NaturalEnd)

\* C15: a natural end of the sounding source or utterance sets isPlaying false,
\* and a Playing session whose output is sounding does not stay Playing for
\* ever: it ends, is stopped, or the component goes away.
C15_PlayingCompletes ==
    /\ [][NaturalEnd => ~isPlaying']_vars
    /\ (isPlaying /\ (SoundingSources # {} \/ Speaking # {}))
          ~> (~isPlaying \/ (IsPreview /\ ~isMountedRef))

\* a session has played to its end and the component is Idle again
C15_PlayedToTheEnd ==
    /\ last = Async /\ ~isPlaying /\ ~isLoading /\ mounted
    /\ SoundingSources = {} /\ Speaking = {} /\ staleEnded = 0 /\ staleUtterances = 0
    /\ \/ generatedAudio # NoAudio
       \/ IsTool /\ engine = "system" /\ utterances = <<>> /\ error = NULL

\* the step is a generate attempt: handleGenerate or handlePlay runs
GenerateAttempt == last'.op \in {"handleGenerate", "handlePlay"}

\* the step completes a generate attempt successfully: the response's buffer
\* starts playing, or the spoken utterance starts
GenerateSucceeds ==
    /\ last' = Async /\ isPlaying'
    /\ SourceStarted \/ UtteranceStarts

\* C16: an error message stays set until the next generate attempt, and when
\* a generate attempt completes successfully (the session is Playing as its
\* result) the error message is null.
C16_ErrorUntilNextGenerate ==
    [][/\ (error # NULL /\ error' = NULL => GenerateAttempt)
       /\ (GenerateSucceeds => error' = NULL)]_vars

\* the requests that await the backend's answer
Pending(reqs) == { r \in 1..Len(reqs) : reqs[r].status = "pending" }

\* the step calls generateContent: one more request awaits the backend
BackendCalled == Cardinality(Pending(requests')) > Cardinality(Pending(requests))

\* the step calls speechSynthesis.speak: an utterance is queued that was not
\* there, or that replaces one cancelled in the same step
SpeakCalled ==
    /\ utterances' = <<"queued">>
    /\ utterances = <<>> \/ staleUtterances' > staleUtterances

\* C17: no automatic retry.  A synthesis call (cloud request or local speak)
\* is issued only in a step in which the user triggers generate or play, and
\* that step issues one call: one request, or one utterance, never both; a
\* step in which a request fails issues none.  Hence the calls never
\* outnumber the user's generate actions.
C17_NoAutomaticRetry ==
    [][/\ (BackendCalled \/ SpeakCalled =>
             /\ GenerateAttempt
             /\ ~(BackendCalled /\ SpeakCalled)
             /\ Len(requests') <= Len(requests) + 1)
       /\ (CloudFails => ~BackendCalled /\ ~SpeakCalled)]_vars


\* a request has failed and nothing was issued in its place: no request and no
\* utterance is outstanding after the failure was reported
C17_FailedWithoutRetry ==
    /\ last = Async /\ ~isLoading
    /\ error \in {ErrThrown, ErrTextResponse, ErrNoAudio, ErrPreviewNoAudio}
    /\ Pending(requests) = {} /\ utterances = <<>> /\ staleUtterances = 0

\* a promise handleGenerate or handlePlay awaits settles: the backend resolves
\* or rejects, or audioContext.resume() settles
BackendSettles ==
    \E r \in 1..MaxRequests :
       \/ \E o \in Outcomes, f \in FreshStates :
             Tool_BackendResponds(r, o, f) \/ Preview_BackendResponds(r, o, f)
       \/ Tool_ResumeSettles(r) \/ Preview_ResumeSettles(r)

\* the backend and the platform settle every promise that is awaited
SettlingSpec == Spec /\ WF_vars(BackendSettles)

Playback ==
    [audio |-> Now, utterances |-> utterances, stale |-> staleUtterances,
     isPlaying |-> isPlaying]

\* TtsTool.stopAudio() of a render whose engine is eng, as a function of that
\* state; with the system engine it is speechSynthesis.cancel() and leaves the
\* source reference alone
Tool_stopAudio(p, eng) ==
    [audio |-> Tool_stopSource(p.audio, eng),
     utterances |-> IF eng = "gemini" THEN p.utterances ELSE <<>>,
     stale |-> IF eng = "gemini" THEN p.stale ELSE p.stale + Len(p.utterances),
     isPlaying |-> FALSE]

\* AiTtsPreview.stopAudio() as a function of that state
Preview_stopAudioOf(p) ==
    [p EXCEPT !.audio = StopSource(p.audio),
              !.isPlaying = IF isMountedRef THEN FALSE ELSE @]

\* stopAudio() of the current render
stopAudio(p) == IF IsTool THEN Tool_stopAudio(p, engine) ELSE Preview_stopAudioOf(p)

\* C19: stopAudio is total and idempotent.  In every state, whatever the
\* source reference holds (nothing, a playing source, an ended one), the
\* state after two invocations equals the state after one, and in it the
\* source reference is null and isPlaying is false.
C19_StopAudioIdempotent ==
    LET one == stopAudio(Playback)
        two == stopAudio(one)
    IN /\ two = one
       /\ one.audio.sref = 0
       /\ ~one.isPlaying

\* the step discards the retained buffer's session: an accepted generate, an
\* engine switch or a voice change
Discards ==
    \/ IsTool /\ last'.op = "handleGenerate" /\ ~BlankScript(text) /\ ~OverLimit(text)
    \/ last'.op \in {"setEngine", "setSelectedVoiceName"}

\* C20: the Download control is offered iff generatedAudio is non-null and the
\* engine is the cloud engine; generatedAudio becomes non-null only when the
\* most recent cloud generate succeeds, as that response's buffer, and every
\* later generate, engine switch or voice change sets it back to null.
C20_DownloadIffRetained ==
    /\ [](DownloadOffered <=> generatedAudio # NoAudio /\ engine = "gemini")
    /\ [][/\ (generatedAudio' # NoAudio /\ generatedAudio' # generatedAudio =>
                /\ Len(requests) >= 1 /\ AudioDecoded(Len(requests))
                /\ generatedAudio' = Buffer(requests[Len(requests)]))
          /\ (Discards => generatedAudio' = NoAudio)]_vars

\* the buffer of a finished playback is retained and can be downloaded
C20_DownloadAvailable ==
    /\ DownloadOffered /\ last = Async
    /\ ~isPlaying /\ ~isLoading /\ requests = <<>>

\* C21: handleDownload never re-synthesizes and has no effect on the session:
\* the step issues no backend request and no speak call, and leaves isLoading,
\* isPlaying, error, the retained buffer, the audio graph and the speech queue
\* as they were.
C21_DownloadHasNoEffect ==
    [][last'.op = "handleDownload" =>
         /\ ~BackendCalled /\ ~SpeakCalled
         /\ UNCHANGED <<flags, audio, speech, requests>>]_vars

\* the retained buffer is downloaded while it is playing
C21_DownloadedWhilePlaying ==
    /\ last.op = "handleDownload" /\ last.playing
    /\ isPlaying /\ sourceNodeRef \in SoundingSources /\ generatedAudio # NoAudio

\* C22: in TtsTool the generate action is enabled iff the session is not
\* Loading, the script is non-empty and the word count is within the limit.
C22_GenerateEnabledIff ==
    IsTool =>
      (~GenerateDisabled <=> ~isLoading /\ ~BlankScript(text) /\ wordCount(text) <= MAX_WORDS)

\* the int16 values of the response that the decoder kept, in file order
Kept == (Len(codec.data) \div codec.numChannels) * codec.numChannels

\* C23: the PCM round trip is exact: every 16-bit value of a response, decoded
\* by decodeAudioData and encoded again by createWavFile, is the value the
\* file holds at its place.
C23_RoundTripExact ==
    codec.stage = "file" =>
      \A k \in 0..(Kept - 1) : SampleAt(codec.wav, HeaderBytes + 2 * k) = codec.data[k + 1]

\* C24: the layout of createWavFile's output.  For a buffer of F frames, C
\* channels and rate R the file has 44 + F*C*2 bytes; the RIFF size is the
\* length - 8; the fmt chunk holds size 16, format 1, C, R, byte rate R*C*2,
\* block align C*2 and 16 bits; the data size is F*C*2; the samples follow
\* frame by frame with the channels interleaved, and the write loop stops at
\* the end of the buffer with every frame read.
C24_WavLayout ==
    codec.stage = "file" =>
      LET w == codec.wav
          F == codec.buffer.length
          C == codec.buffer.numberOfChannels
          R == codec.buffer.sampleRate
      IN /\ ~w.thrown
         /\ w.length = 44 + F * C * 2 /\ DOMAIN w.bytes = 0..(w.length - 1)
         /\ StringAt(w, 0) = RIFF /\ Uint32At(w, 4) = w.length - 8
         /\ StringAt(w, 8) = WAVE /\ StringAt(w, 12) = FMT
         /\ Uint32At(w, 16) = 16 /\ Uint16At(w, 20) = 1
         /\ Uint16At(w, 22) = C /\ Uint32At(w, 24) = R
         /\ Uint32At(w, 28) = R * C * 2 /\ Uint16At(w, 32) = C * 2
         /\ Uint16At(w, 34) = 16
         /\ StringAt(w, 36) = DATA /\ Uint32At(w, 40) = F * C * 2
         /\ \A f \in 0..(F - 1), c \in 0..(C - 1) :
               SampleAt(w, 44 + 2 * (f * C + c)) = EncodeSample(codec.buffer.channelData[c][f])
         /\ w.pos = w.length /\ w.offset = F

\* a stereo file whose one frame holds two different samples
C24_StereoFileWritten ==
    /\ codec.stage = "file" /\ codec.buffer.numberOfChannels = 2
    /\ codec.data = <<-32768, 32767, 0>>
    /\ SampleAt(codec.wav, 44) = -32768 /\ SampleAt(codec.wav, 46) = 32766

\* C25: the quantization error is bounded.  Every sample of a decoded response
\* is written within 1 of its 16-bit value, and for every float of a buffer,
\* inside [-1, 1] or not, the number handed to setInt16 lies in
\* [-32768, 32767], so the value written is that number and never wraps.
C25_QuantizationBound ==
    codec.stage = "file" =>
      /\ \A k \in 0..(Kept - 1) :
            LET written == SampleAt(codec.wav, HeaderBytes + 2 * k)
            IN written - codec.data[k + 1] \in {-1, 0, 1}
      /\ \A f \in 0..(codec.buffer.length - 1), c \in 0..(codec.buffer.numberOfChannels - 1) :
            LET number == Truncate(ScaledSample(codec.buffer.channelData[c][f]))
                written == SampleAt(codec.wav,
                                    HeaderBytes + 2 * (f * codec.buffer.numberOfChannels + c))
            IN number \in Int16 /\ written = number

\* a float above 1 was clamped and written as the largest 16-bit value
C25_ClampedSampleWritten ==
    /\ codec.stage = "file" /\ codec.data = <<>>
    /\ codec.buffer.channelData[0][0] = Float(49152, 32768)
    /\ SampleAt(codec.wav, HeaderBytes) = 32767

\* decodeAudioData has run on the response in the workspace
Decoded == codec.stage = "rejected" \/ (codec.stage \in {"buffer", "file"} /\ codec.data # <<>>)

\* the buffer holds floor(N / C) frames per channel, sample i of channel c
\* being int16[i*C + c] / 32768, the trailing N mod C values dropped
TruncatedBuffer ==
    LET N == Len(codec.data)
        C == codec.numChannels
        b == codec.buffer
    IN /\ ~b.thrown
       /\ b.numberOfChannels = C /\ b.length = N \div C
       /\ \A c \in 0..(C - 1) :
             /\ DOMAIN b.channelData[c] = 0..((N \div C) - 1)
             /\ \A i \in 0..((N \div C) - 1) :
                   b.channelData[c][i] = Float(codec.data[i * C + c + 1], 32768)

\* C26 as stated: decodeAudioData on N int16 values with C channels produces
\* a buffer of floor(N / C) frames per channel.
C26_DecodeProducesFloorFrames == Decoded => TruncatedBuffer

\* C26 amended: it does so when the response holds at least one whole frame
\* (N >= C); with fewer values createBuffer rejects the length 0 and
\* decodeAudioData throws.
C26_DecodeTruncates ==
    Decoded => IF Len(codec.data) >= codec.numChannels
               THEN TruncatedBuffer
               ELSE codec.stage = "rejected" /\ codec.buffer.thrown

\* three values decoded as stereo: one frame, the third value dropped
C26_TrailingValueDropped ==
    /\ codec.stage = "buffer" /\ codec.numChannels = 2 /\ Len(codec.data) = 3
    /\ codec.buffer.length = 1
    /\ codec.buffer.channelData[1][0] = Float(codec.data[2], 32768)

\* a cleanup's close() fails with nothing to handle it: close() is called on a
\* context that is already closed, which rejects the promise it returns, and
\* no catch is attached to that promise
UnhandledClose(closeCalled, handled) ==
    closeCalled /\ CtxState(audioContextRef) = "closed" /\ ~handled

\* TtsTool: if (audioContextRef.current) audioContextRef.current.close();
Tool_cleanupFails == UnhandledClose(audioContextRef # 0, FALSE)

\* AiTtsPreview: if (audioContextRef.current && audioContextRef.current.state !== 'closed')
\*                    audioContextRef.current.close().catch(console.error);
Preview_cleanupFails ==
    UnhandledClose(audioContextRef # 0 /\ CtxState(audioContextRef) # "closed", TRUE)

\* C27: teardown never fails visibly: no run of a component's cleanup, on
\* unmount or (TtsTool) on a change of onClose, calls close on an audio context
\* that is already closed without handling the failure.
C27_TeardownNeverFails ==
    [][/\ (Tool_Unmount \/ Tool_ParentRerender => ~Tool_cleanupFails)
       /\ (Preview_Unmount => ~Preview_cleanupFails)]_vars

\* C28: in AiTtsPreview at most one buffer source is sounding at any time, and
\* a source is started only when no source started earlier is still sounding.
C28_PreviewOneSourceSounding ==
    /\ [](IsPreview => Cardinality(SoundingSources) <= 1)
    /\ [][IsPreview /\ SourceStarted => SoundingSources = {}]_vars

\* the step is a system generate: handleGenerate past its two early returns in
\* a render whose engine is 'system'
SystemGenerate ==
    /\ IsTool /\ last'.op = "handleGenerate"
    /\ engine = "system" /\ ~BlankScript(text) /\ ~OverLimit(text)

\* the step is a user stop in a render whose engine is 'system'
SystemStop == IsTool /\ last'.op = "stopAudio" /\ engine = "system"

\* C29: local-engine lifecycle in TtsTool.  A system generate speaks one
\* utterance and returns with isPlaying and isLoading false and generatedAudio
\* null, and they stay so (generatedAudio null, isLoading false) for as long as
\* an utterance is queued or speaking; during that time isPlaying becomes true
\* only in the step of the utterance's start notification, which sets it; the
\* end notification sets isPlaying false; the error notification sets the error
\* message and isPlaying false; a user stop while the engine is 'system' cancels
\* the platform utterance, leaving none queued or speaking.
C29_LocalEngineLifecycle ==
    /\ [](IsTool /\ utterances # <<>> => generatedAudio = NoAudio /\ ~isLoading)
    /\ [][/\ SystemGenerate => /\ SpeakCalled
                               /\ generatedAudio' = NoAudio
                               /\ ~isLoading' /\ ~isPlaying'
          /\ IsTool /\ utterances # <<>> /\ ~isPlaying /\ isPlaying' => UtteranceStarts
          /\ UtteranceStarts => isPlaying'
          /\ UtteranceEnds => ~isPlaying'
          /\ UtteranceFails => error' = ErrSystemFailed /\ ~isPlaying'
          /\ SystemStop => utterances' = <<>> /\ Speaking' = {} /\ ~isPlaying']_vars

\* a system generate was spoken, its utterance started, and the user stopped
\* it: the utterance is cancelled and its notification is still to come
C29_LocalSpeechStopped ==
    /\ IsTool /\ engine = "system"
    /\ last.op = "stopAudio" /\ last.playing
    /\ generatedAudio = NoAudio
    /\ utterances = <<>> /\ staleUtterances > 0
    /\ ~isPlaying /\ ~isLoading

\* C30: in every reachable state of TtsTool and of AiTtsPreview the session
\* flags exclude each other: isLoading and isPlaying are never both true.
C30_FlagsExclusive == ~(isLoading /\ isPlaying)

\* a cloud response has just started its buffer in TtsTool: the request is
\* settled, the buffer is retained and sounding, and Loading gave way to Playing
C30_LoadingGaveWayToPlaying ==
    /\ IsTool /\ last.op = "async"
    /\ requests = <<>> /\ generatedAudio # NoAudio
    /\ sourceNodeRef # 0 /\ Sounding(sourceNodeRef)
    /\ isPlaying /\ ~isLoading

\* C31: in TtsTool a retained buffer was always synthesized with the currently
\* selected cloud voice, so the download name voice-gen-<selectedVoiceName>.wav
\* names the voice that speaks in the file.
C31_RetainedBufferHasSelectedVoice ==
    IsTool /\ generatedAudio # NoAudio => generatedAudio.voice = selectedVoiceName

\* C32: in TtsTool at most one local utterance is queued or speaking in the
\* platform speech engine at any time, and a step that calls speak leaves
\* exactly the new utterance in the queue: the earlier ones were cancelled in
\* the same invocation.
C32_OneLocalUtterance ==
    /\ [](IsTool => Len(utterances) <= 1)
    /\ [][IsTool /\ last'.op = "handleGenerate" /\ utterances' # utterances
              => utterances' = <<"queued">>]_vars

\* Generate was pressed on the system engine while an earlier utterance was
\* still in the queue: the earlier one is cancelled (its notification is still
\* to come) and only the new one is queued
C32_SpokenOverCancelled ==
    /\ IsTool /\ engine = "system"
    /\ last.op = "handleGenerate"
    /\ utterances = <<"queued">> /\ staleUtterances > 0

\* the step delivers a cloud response that carries audio data to the
\* continuation of handleGenerate / handlePlay (in AiTtsPreview: while mounted)
DataResponse ==
    /\ IsPreview => isMountedRef
    /\ \E r \in 1..Len(requests), o \in {"audio", "malformed"}, f \in FreshStates :
          Tool_BackendResponds(r, o, f) \/ Preview_BackendResponds(r, o, f)

\* the reference holds a context that is not closed
ContextUsable == audioContextRef \in LiveContexts

\* C33: a component instance has at most one non-closed audio context at any
\* time, the one its reference holds.  None exists at the start; one is created
\* only in a step that delivers a cloud response with audio data, and only when
\* the reference is empty or its context is closed; otherwise that step keeps
\* the referenced context, and when it is suspended the step starts nothing and
\* awaits resume(), so a source a response starts on a reused context finds it
\* running.
C33_OneLiveContext ==
    /\ LiveContexts = {}
    /\ [](LiveContexts \subseteq {audioContextRef})
    /\ [][/\ ContextCreated => DataResponse /\ ~ContextUsable
          /\ DataResponse /\ ContextUsable =>
                /\ ~ContextCreated
                /\ audioContextRef' = audioContextRef
                /\ contexts[audioContextRef] = "suspended" =>
                      /\ ~SourceStarted
                      /\ \E r \in 1..Len(requests') : requests'[r].status = "resume"
          /\ SourceStarted /\ last'.op = "async" /\ ContextUsable =>
                contexts'[audioContextRef'] = "running"]_vars

\* AiTtsPreview reuses its context: the context a first response created came
\* up suspended, and a later response found it so and awaits resume()
C33_ReusedContextResumes ==
    /\ IsPreview /\ mounted
    /\ audioContextRef # 0 /\ contexts[audioContextRef] = "suspended"
    /\ LiveContexts = {audioContextRef}
    /\ \E r \in 1..Len(requests) : requests[r].status = "resume"

\* C34: in TtsTool a re-render of the parent that passes a new onClose while
\* the tool stays open stops no sounding source, cancels no utterance and
\* closes no audio context.
C34_RerenderKeepsPlayback ==
    [][Tool_ParentRerender =>
          /\ SoundingSources' = SoundingSources
          /\ utterances' = utterances
          /\ LiveContexts' = LiveContexts]_vars

====
